---- MODULE Spec2Model ----
(***************************************************************************)
(* The POST /convert pipeline of the two Flask services                    *)
(*   linux/server.py        (variant "server")                             *)
(*   linux remake/app.py    (variant "remake")                             *)
(* Each request slot runs the handler convert() step by step, one step per *)
(* system call of the handler.  The file system is a set of directories,   *)
(* directory entries (links) and inodes; an inode lives while it is linked *)
(* or held open.  The converter script is an external process.             *)
(***************************************************************************)
EXTENDS Integers, Sequences, FiniteSets, TLC

\* ------------------------------------------------------------ bounds
\* number of request slots the WSGI server handles concurrently
NReq == 2
\* the model's clock stops advancing for a child at this many seconds
MaxElapsed == 180

\* subprocess.check_output(..., timeout=120)
TIMEOUT == 120

Slots == 1..NReq
\* the names mkdtemp can give a directory: one per slot, so that a name is
\* free whenever every other slot holds a directory
DirNames == 1..NReq

\* ------------------------------------------------------------ strings
\* A string is a sequence of one-character strings; "CJK" stands for one
\* non-ASCII character without an ASCII decomposition.
EMPTY == << >>
DOT_PDF == <<".", "p", "d", "f">>
DOT_CSV == <<".", "c", "s", "v">>
INPUT_PDF == <<"i", "n", "p", "u", "t">> \o DOT_PDF
OUTPUT_CSV == <<"o", "u", "t", "p", "u", "t">> \o DOT_CSV

\* str.lower() on the characters the model uses
LowerChar(c) ==
    CASE c = "P" -> "p"
      [] c = "D" -> "d"
      [] c = "F" -> "f"
      [] c = "B" -> "b"
      [] OTHER -> c

Lower(s) == [i \in 1..Len(s) |-> LowerChar(s[i])]

\* str.endswith(suffix)
EndsWith(s, suf) ==
    /\ Len(s) >= Len(suf)
    /\ SubSeq(s, Len(s) - Len(suf) + 1, Len(s)) = suf

\* str.rfind(c): the last index of c in s, 0 when absent
RFind(s, c) ==
    IF \E i \in 1..Len(s) : s[i] = c
    THEN CHOOSE i \in 1..Len(s) : s[i] = c /\ \A j \in (i+1)..Len(s) : s[j] # c
    ELSE 0

\* os.path.basename(p): what follows the last "/"
Basename(p) == SubSeq(p, RFind(p, "/") + 1, Len(p))

\* s.rsplit('.', 1)[0]: what precedes the last ".", or s when there is none
RSplitDotHead(s) ==
    IF RFind(s, ".") = 0 THEN s ELSE SubSeq(s, 1, RFind(s, ".") - 1)

\* os.path.splitext(p)[0] for a name without directory part: the name up to
\* its last dot, unless that dot is among the leading dots of the name
SplitextRoot(p) ==
    LET dot == RFind(p, ".")
    IN  IF dot > 0 /\ \E i \in 1..(dot - 1) : p[i] # "."
        THEN SubSeq(p, 1, dot - 1)
        ELSE p

\* ------------------------------------------------------------ secure_filename
\* the characters file names of the model are made of
Chars == {"a", "b", "p", "d", "f", "t", "x", "P", "D", "F", "B",
          "_", ".", "-", "/", " ", "CJK"}
\* what encode("ascii", "ignore") keeps
AsciiChars == Chars \ {"CJK"}
\* _filename_ascii_strip_re = [^A-Za-z0-9_.-]
SafeChars == Chars \ {"/", " ", "CJK"}

RECURSIVE Filter(_, _)
\* the characters of s that are in keep, in order
Filter(s, keep) ==
    IF s = << >> THEN << >>
    ELSE IF Head(s) \in keep THEN <<Head(s)>> \o Filter(Tail(s), keep)
    ELSE Filter(Tail(s), keep)

RECURSIVE LStrip(_, _)
LStrip(s, cs) ==
    IF s # << >> /\ Head(s) \in cs THEN LStrip(Tail(s), cs) ELSE s

RECURSIVE RStrip(_, _)
RStrip(s, cs) ==
    IF s # << >> /\ s[Len(s)] \in cs THEN RStrip(SubSeq(s, 1, Len(s) - 1), cs) ELSE s

\* str.strip(chars)
Strip(s, cs) == RStrip(LStrip(s, cs), cs)

RECURSIVE JoinWords(_, _)
\* "_".join(s.split()): runs of white space become one "_", leading and
\* trailing white space disappears.  inWord: the last kept character was
\* not white space.
JoinWords(s, inWord) ==
    IF s = << >> THEN << >>
    ELSE IF Head(s) = " "
         THEN IF inWord /\ \E i \in 1..Len(s) : s[i] # " "
              THEN <<"_">> \o JoinWords(Tail(s), FALSE)
              ELSE JoinWords(Tail(s), FALSE)
         ELSE <<Head(s)>> \o JoinWords(Tail(s), TRUE)

\* werkzeug.utils.secure_filename
secure_filename(name) ==
    LET ascii == Filter(name, AsciiChars)
        nosep == [i \in 1..Len(ascii) |-> IF ascii[i] = "/" THEN " " ELSE ascii[i]]
        joined == JoinWords(nosep, FALSE)
        safe == Filter(joined, SafeChars)
    IN  Strip(safe, {".", "_"})

\* ------------------------------------------------------------ inputs
NoData == "absent"
APPLICATION_PDF == "application/pdf"
TEXT_PLAIN == "text/plain"

A_PDF == <<"a">> \o DOT_PDF
TRAVERSAL_B_PDF == <<".", ".", "/", "b", ".", "P", "D", "F">>
B_TXT == <<"b", ".", "t", "x", "t">>
CJK_PDF == <<"CJK">> \o DOT_PDF

\* request.files has no 'file' part
NoFilePart == [hasFile |-> FALSE, filename |-> EMPTY, ctype |-> "", bytes |-> NoData]

FilePart(name, ctype, bytes) ==
    [hasFile |-> TRUE, filename |-> name, ctype |-> ctype, bytes |-> bytes]

\* the uploads a single worker is sent
Uploads ==
    {NoFilePart}
    \cup {FilePart(n, c, "%PDF-A") :
            n \in {EMPTY, A_PDF, TRAVERSAL_B_PDF, B_TXT, CJK_PDF},
            c \in {APPLICATION_PDF, TEXT_PLAIN}}
    \cup {FilePart(A_PDF, APPLICATION_PDF, "%PDF-B")}

\* the upload sent to slot r of the threaded server: every slot gets bytes
\* of its own
ConcUploads(r) == {FilePart(A_PDF, APPLICATION_PDF, "%PDF-" \o ToString(r))}

\* What the converter's stdout and stderr hold when it exits: per stream the
\* number of bytes that decode to one character each and the number of
\* bytes that are not valid UTF-8.
Stream(valid, invalid) == [valid |-> valid, invalid |-> invalid]
Silent == [out |-> Stream(0, 0), err |-> Stream(0, 0)]
Captures ==
    {Silent,
     [out |-> Stream(0, 0), err |-> Stream(1000, 1)],
     [out |-> Stream(600, 0), err |-> Stream(401, 0)]}

\* how a converter run can end: exit code, bytes written to the output
\* path (NoData: nothing written), captured output
Outcome(code, wrote, cap) == [code |-> code, wrote |-> wrote, cap |-> cap]
Outcomes ==
    {Outcome(0, w, Silent) : w \in {NoData, "csv-X", "csv-Y"}}
    \cup {Outcome(1, w, c) : w \in {NoData, "csv-X"}, c \in Captures}
\* the converter of the threaded server writes the CSV of its input
ConcOutcomes(r) == {Outcome(0, "csv-" \o ToString(r), Silent)}

\* bytes.decode(errors='ignore'): invalid bytes are dropped
DecodeIgnoreLen(st) == st.valid
\* bytes.decode('utf-8', errors='replace'): one U+FFFD per invalid byte
DecodeReplaceLen(st) == st.valid + st.invalid

\* ------------------------------------------------------------ state
VARIABLES
    variant,    \* which service is deployed: "server" or "remake"
    pc,         \* per slot: where the request is
    upload,     \* per slot: the multipart file part of the request
    tmpdir,     \* per slot: name of the TemporaryDirectory, 0 before it exists
    child,      \* per slot: the converter process
    exc,        \* per slot: the exception unwinding out of the handler
    resp,       \* per slot: the response
    log,        \* per slot: the system calls the request has made, in order
    dirs,       \* file system: directory name -> slot that created it
    links,      \* file system: directory entries [dir, name, ino]
    inodes      \* file system: inode -> bytes

vars == <<variant, pc, upload, tmpdir, child, exc, resp, log, dirs, links, inodes>>

NoChild == [state |-> "none", code |-> 0, elapsed |-> 0, cap |-> Silent, wrote |-> NoData]
\* An inode is named after the slot whose request (handler or converter)
\* created it and the name it was created under; NoIno is no inode.
Ino(r, name) == [slot |-> r, name |-> name]
NoIno == Ino(0, EMPTY)
NoResp == [status |-> 0, error |-> "", detail |-> 0, body |-> NoData,
           download_name |-> EMPTY, fd |-> NoIno, uncaught |-> FALSE]

Init ==
    /\ variant \in {"server", "remake"}
    /\ pc = [r \in Slots |-> "idle"]
    /\ upload = [r \in Slots |-> NoFilePart]
    /\ tmpdir = [r \in Slots |-> 0]
    /\ child = [r \in Slots |-> NoChild]
    /\ exc = [r \in Slots |-> "none"]
    /\ resp = [r \in Slots |-> NoResp]
    /\ log = [r \in Slots |-> << >>]
    /\ dirs = << >>
    /\ links = {}
    /\ inodes = << >>

\* ------------------------------------------------------------ file system
Exists(d, name) == \E l \in links : l.dir = d /\ l.name = name
InoOf(d, name) == (CHOOSE l \in links : l.dir = d /\ l.name = name).ino
OpenInos(rs) == {rs[r].fd : r \in Slots} \ {NoIno}

\* an inode is kept while a directory entry or an open file refers to it
Collect(ino, ls, rs) ==
    LET live == {l.ino : l \in ls} \cup OpenInos(rs)
    IN  [i \in DOMAIN ino \cap live |-> ino[i]]

\* open(path, 'wb'); write(data); close(): an existing file is truncated and
\* rewritten in place, a missing one is created
WriteFile(r, d, name, data) ==
    IF Exists(d, name)
    THEN /\ inodes' = [inodes EXCEPT ![InoOf(d, name)] = data]
         /\ links' = links
    ELSE /\ inodes' = [i \in DOMAIN inodes \cup {Ino(r, name)} |->
                          IF i = Ino(r, name) THEN data ELSE inodes[i]]
         /\ links' = links \cup {[dir |-> d, name |-> name, ino |-> Ino(r, name)]}

\* ------------------------------------------------------------ paths
\* the name of the Input File inside tmpdir
in_path(v, filename) ==
    IF v = "server" THEN INPUT_PDF ELSE secure_filename(filename)

\* the name of the Output Artifact inside tmpdir
out_path(v, filename) ==
    IF v = "server" THEN OUTPUT_CSV
    ELSE SplitextRoot(secure_filename(filename)) \o DOT_CSV

\* the download_name given to send_file
download_name(v, filename) ==
    IF v = "server" THEN RSplitDotHead(Basename(filename)) \o DOT_CSV
    ELSE out_path(v, filename)

\* ------------------------------------------------------------ error kinds
ErrNoFile(v) == IF v = "server" THEN "no file part" ELSE "no file provided"
ErrEmptyFilename(v) == "empty filename"
ErrNotPdf(v) == "only pdf files are supported"
ErrFailed(v) == "conversion failed"
ErrTimeout(v) == "conversion timeout"
ErrNoOutput(v) ==
    IF v = "server" THEN "conversion produced no output" ELSE "csv not produced"

\* jsonify({'error': ...}), status
ErrorResp(status, error, detail) ==
    [NoResp EXCEPT !.status = status, !.error = error, !.detail = detail]

\* ------------------------------------------------------------ the handler
Logged(r, event) == log' = [log EXCEPT ![r] = Append(@, event)]
Goto(r, label) == pc' = [pc EXCEPT ![r] = label]
Raise(r, e) == exc' = [exc EXCEPT ![r] = e]

\* a POST /convert request arrives at worker r
Receive(r, uploads) ==
    /\ pc[r] = "idle"
    /\ \E u \in uploads : upload' = [upload EXCEPT ![r] = u]
    /\ Goto(r, "validate")
    /\ UNCHANGED <<variant, tmpdir, child, exc, resp, log, dirs, links, inodes>>

\* the checks of the request before any file is touched
ValidationError(v, u) ==
    IF ~u.hasFile THEN ErrNoFile(v)
    ELSE IF u.filename = EMPTY THEN ErrEmptyFilename(v)
    ELSE IF v = "remake" /\ ~EndsWith(Lower(secure_filename(u.filename)), DOT_PDF)
         THEN ErrNotPdf(v)
    ELSE ""

Validate(r) ==
    /\ pc[r] = "validate"
    /\ IF ValidationError(variant, upload[r]) # ""
       THEN /\ resp' = [resp EXCEPT ![r] =
                          ErrorResp(400, ValidationError(variant, upload[r]), 0)]
            /\ Goto(r, "returned")
       ELSE /\ resp' = resp
            /\ Goto(r, "mkdtemp")
    /\ UNCHANGED <<variant, upload, tmpdir, child, exc, log, dirs, links, inodes>>

\* Mkdtemp with a bug: the directory is made with exist_ok, so a name that is
\* in use is taken as well
MkdtempAnyName(r) ==
    /\ pc[r] = "mkdtemp"
    /\ \E d \in DirNames :
         /\ dirs' = IF d \in DOMAIN dirs THEN dirs ELSE (d :> r) @@ dirs
         /\ tmpdir' = [tmpdir EXCEPT ![r] = d]
    /\ Logged(r, "mkdtemp")
    /\ Goto(r, "save")
    /\ UNCHANGED <<variant, upload, child, exc, resp, links, inodes>>

\* tempfile.TemporaryDirectory(): mkdtemp makes a directory under a name
\* that mkdir reports as not existing; FileExistsError when no name is left
Mkdtemp(r) ==
    /\ pc[r] = "mkdtemp"
    /\ IF DirNames \ DOMAIN dirs = {}
       THEN /\ Raise(r, "FileExistsError")
            /\ resp' = [resp EXCEPT ![r] =
                          [NoResp EXCEPT !.status = 500, !.uncaught = TRUE]]
            /\ Goto(r, "returned")
            /\ UNCHANGED <<tmpdir, dirs, log>>
       ELSE /\ \E d \in DirNames \ DOMAIN dirs :
                 /\ dirs' = (d :> r) @@ dirs
                 /\ tmpdir' = [tmpdir EXCEPT ![r] = d]
            /\ Logged(r, "mkdtemp")
            /\ Goto(r, "save")
            /\ UNCHANGED <<exc, resp>>
    /\ UNCHANGED <<variant, upload, child, links, inodes>>

\* f.save(in_path): the upload's bytes are written to the Input File; the
\* write can fail before the file is created or after part of it is written
Save(r) ==
    /\ pc[r] = "save"
    /\ \/ /\ WriteFile(r, tmpdir[r], in_path(variant, upload[r].filename), upload[r].bytes)
          /\ Logged(r, "write")
          /\ Goto(r, "spawn")
          /\ exc' = exc
       \/ /\ WriteFile(r, tmpdir[r], in_path(variant, upload[r].filename), "partial")
          /\ Raise(r, "OSError")
          /\ Goto(r, "cleanup")
          /\ log' = log
       \/ /\ Raise(r, "OSError")
          /\ Goto(r, "cleanup")
          /\ UNCHANGED <<links, inodes, log>>
    /\ UNCHANGED <<variant, upload, tmpdir, child, resp, dirs>>

\* subprocess starts /app/pdf2csv.sh; OSError when the script cannot be run
Spawn(r) ==
    /\ pc[r] = "spawn"
    /\ \/ /\ child' = [child EXCEPT ![r] = [NoChild EXCEPT !.state = "running"]]
          /\ Logged(r, "spawn")
          /\ Goto(r, "wait")
          /\ exc' = exc
       \/ /\ Raise(r, "OSError")
          /\ Goto(r, "cleanup")
          /\ UNCHANGED <<child, log>>
    /\ UNCHANGED <<variant, upload, tmpdir, resp, dirs, links, inodes>>

\* the converter process ends of its own accord
ChildExit(r, outcomes) ==
    /\ pc[r] = "wait"
    /\ child[r].state = "running"
    /\ \E o \in outcomes :
         /\ child' = [child EXCEPT ![r] =
                         [@ EXCEPT !.state = "exited", !.code = o.code,
                                   !.cap = o.cap, !.wrote = o.wrote]]
         /\ IF o.wrote # NoData
            THEN WriteFile(r, tmpdir[r], out_path(variant, upload[r].filename), o.wrote)
            ELSE UNCHANGED <<links, inodes>>
    /\ Logged(r, "exit")
    /\ UNCHANGED <<variant, pc, upload, tmpdir, exc, resp, dirs>>

\* does the handler wait for the converter with a timeout
Timed(v) == v = "server"

\* a minute passes while the handler waits for the converter; a timed wait
\* does not outlast its timeout
Tick(r) ==
    /\ pc[r] = "wait"
    /\ child[r].state = "running"
    /\ child[r].elapsed + 60 <= MaxElapsed
    /\ ~(Timed(variant) /\ child[r].elapsed >= TIMEOUT)
    /\ child' = [child EXCEPT ![r].elapsed = @ + 60]
    /\ UNCHANGED <<variant, pc, upload, tmpdir, exc, resp, log, dirs, links, inodes>>

\* subprocess.TimeoutExpired: check_output kills the child and waits for it,
\* the handler answers 504; the killed converter may have started its output
Timeout(r) ==
    /\ pc[r] = "wait"
    /\ child[r].state = "running"
    /\ Timed(variant)
    /\ child[r].elapsed >= TIMEOUT
    /\ child' = [child EXCEPT ![r] = [@ EXCEPT !.state = "killed", !.elapsed = 0]]
    /\ \/ WriteFile(r, tmpdir[r], out_path(variant, upload[r].filename), "partial")
       \/ UNCHANGED <<links, inodes>>
    /\ resp' = [resp EXCEPT ![r] = ErrorResp(504, ErrTimeout(variant), 0)]
    /\ Logged(r, "kill")
    /\ Goto(r, "cleanup")
    /\ UNCHANGED <<variant, upload, tmpdir, exc, dirs>>

\* the length of the converter output put into the 500 response
DetailLen(v, cap) ==
    IF v = "server"
    THEN DecodeIgnoreLen(cap.out) + DecodeIgnoreLen(cap.err)
    ELSE DecodeReplaceLen(cap.out) + DecodeReplaceLen(cap.err)

\* the wait for the converter returns: CalledProcessError on a non-zero exit
WaitReturn(r) ==
    /\ pc[r] = "wait"
    /\ child[r].state = "exited"
    /\ child' = [child EXCEPT ![r].elapsed = 0]
    /\ IF child[r].code # 0
       THEN /\ resp' = [resp EXCEPT ![r] =
                          ErrorResp(500, ErrFailed(variant), DetailLen(variant, child[r].cap))]
            /\ Goto(r, "cleanup")
       ELSE /\ resp' = resp
            /\ Goto(r, "check")
    /\ UNCHANGED <<variant, upload, tmpdir, exc, log, dirs, links, inodes>>

\* CheckOutput with a bug: a zero exit is taken to mean the output exists
CheckOutputAssumed(r) ==
    /\ pc[r] = "check"
    /\ Goto(r, "send")
    /\ UNCHANGED <<variant, upload, tmpdir, child, exc, resp, log, dirs, links, inodes>>

\* os.path.exists(out_path)
CheckOutput(r) ==
    /\ pc[r] = "check"
    /\ IF Exists(tmpdir[r], out_path(variant, upload[r].filename))
       THEN /\ resp' = resp
            /\ Goto(r, "send")
       ELSE /\ resp' = [resp EXCEPT ![r] = ErrorResp(500, ErrNoOutput(variant), 0)]
            /\ Goto(r, "cleanup")
    /\ UNCHANGED <<variant, upload, tmpdir, child, exc, log, dirs, links, inodes>>

\* SendFile with a bug: the response keeps the path and opens the file only
\* when the body is written
SendFileByName(r) ==
    /\ pc[r] = "send"
    /\ resp' = [resp EXCEPT ![r] =
                  [NoResp EXCEPT
                     !.status = 200,
                     !.download_name = download_name(variant, upload[r].filename)]]
    /\ Goto(r, "cleanup")
    /\ UNCHANGED <<variant, upload, tmpdir, child, exc, log, dirs, links, inodes>>

\* send_file(out_path, ...): opens the file and hands the open file to the
\* response; FileNotFoundError when there is no such file
SendFile(r) ==
    /\ pc[r] = "send"
    /\ IF Exists(tmpdir[r], out_path(variant, upload[r].filename))
       THEN /\ resp' = [resp EXCEPT ![r] =
                          [NoResp EXCEPT
                             !.status = 200,
                             !.fd = InoOf(tmpdir[r], out_path(variant, upload[r].filename)),
                             !.download_name = download_name(variant, upload[r].filename)]]
            /\ Logged(r, "open")
            /\ exc' = exc
       ELSE /\ Raise(r, "FileNotFoundError")
            /\ UNCHANGED <<resp, log>>
    /\ Goto(r, "cleanup")
    /\ UNCHANGED <<variant, upload, tmpdir, child, dirs, links, inodes>>

\* ExitWith with a bug: the directory is removed at the end of the block
\* only, not when the block raises
ExitWithUnlessRaised(r) ==
    /\ pc[r] = "cleanup"
    /\ LET rest == {l \in links : l.dir # tmpdir[r]}
       IN  IF exc[r] # "none"
           THEN /\ resp' = [resp EXCEPT ![r] =
                              [NoResp EXCEPT !.status = 500, !.uncaught = TRUE]]
                /\ UNCHANGED <<links, dirs, inodes, log>>
           ELSE /\ links' = rest
                /\ dirs' = [d \in DOMAIN dirs \ {tmpdir[r]} |-> dirs[d]]
                /\ inodes' = Collect(inodes, rest, resp)
                /\ Logged(r, "rmtree")
                /\ resp' = resp
    /\ Goto(r, "returned")
    /\ UNCHANGED <<variant, upload, tmpdir, child, exc>>

\* TemporaryDirectory.__exit__: the directory and all its entries are
\* removed, whether the with block returned or raised; an exception that
\* leaves the handler becomes the framework's 500 page
ExitWith(r) ==
    /\ pc[r] = "cleanup"
    /\ LET rest == {l \in links : l.dir # tmpdir[r]}
       IN  /\ links' = rest
           /\ dirs' = [d \in DOMAIN dirs \ {tmpdir[r]} |-> dirs[d]]
           /\ inodes' = Collect(inodes, rest, resp)
    /\ resp' = IF exc[r] # "none"
               THEN [resp EXCEPT ![r] = [NoResp EXCEPT !.status = 500, !.uncaught = TRUE]]
               ELSE resp
    /\ Logged(r, "rmtree")
    /\ Goto(r, "returned")
    /\ UNCHANGED <<variant, upload, tmpdir, child, exc>>

\* the server writes the response: the body of a file response is read from
\* the open file, which is then closed
SendResponse(r) ==
    /\ pc[r] = "returned"
    /\ resp' = [resp EXCEPT ![r] =
                  [@ EXCEPT !.body = IF resp[r].fd # NoIno THEN inodes[resp[r].fd] ELSE NoData,
                            !.fd = NoIno]]
    /\ inodes' = Collect(inodes, links, resp')
    /\ log' = [log EXCEPT ![r] = IF resp[r].fd # NoIno THEN Append(@, "read") ELSE @]
    /\ Goto(r, "done")
    /\ UNCHANGED <<variant, upload, tmpdir, child, exc, dirs, links>>

\* the request is over; the worker takes the next one
Finish(r) ==
    /\ pc[r] = "done"
    /\ Goto(r, "idle")
    /\ upload' = [upload EXCEPT ![r] = NoFilePart]
    /\ tmpdir' = [tmpdir EXCEPT ![r] = 0]
    /\ child' = [child EXCEPT ![r] = NoChild]
    /\ exc' = [exc EXCEPT ![r] = "none"]
    /\ resp' = [resp EXCEPT ![r] = NoResp]
    /\ log' = [log EXCEPT ![r] = << >>]
    /\ UNCHANGED <<variant, dirs, links, inodes>>

\* one step of the handler convert() for the request of worker r
convert(r) ==
    \/ Validate(r)
    \/ Mkdtemp(r)
    \/ Save(r)
    \/ Spawn(r)
    \/ WaitReturn(r)
    \/ Timeout(r)
    \/ CheckOutput(r)
    \/ SendFile(r)
    \/ ExitWith(r)

\* ------------------------------------------------------------ specifications
\* one worker: requests are handled one after the other
Next ==
    \/ Receive(1, Uploads)
    \/ convert(1)
    \/ ChildExit(1, Outcomes)
    \/ Tick(1)
    \/ SendResponse(1)
    \/ Finish(1)

Spec == Init /\ [][Next]_vars

\* a threaded server: every slot handles a request of its own
ConcNext ==
    \E r \in Slots :
        \/ Receive(r, ConcUploads(r))
        \/ convert(r)
        \/ ChildExit(r, ConcOutcomes(r))
        \/ Tick(r)
        \/ SendResponse(r)
        \/ Finish(r)

ConcSpec == Init /\ [][ConcNext]_vars

\* ------------------------------------------------------------ vocabulary
Has(l, e) == \E i \in 1..Len(l) : l[i] = e
Count(l, e) == Cardinality({i \in 1..Len(l) : l[i] = e})
\* every b in l has an a somewhere before it
Precedes(l, a, b) == \A j \in 1..Len(l) : l[j] = b => \E i \in 1..(j - 1) : l[i] = a

\* the handler has returned (or raised); the response may not be written yet
Returned(r) == pc[r] \in {"returned", "done"}
\* the request holds a Work Directory that its handler has not yet removed
Holding(r) == pc[r] \in {"save", "spawn", "wait", "check", "send", "cleanup"}
\* nothing the request created on disk is left
WorkDirGone(r) ==
    /\ \A d \in DOMAIN dirs : dirs[d] # r
    /\ \A l \in links : l.ino.slot # r

HasPdfExtension(u) == EndsWith(Lower(u.filename), DOT_PDF)
NonPdfUpload(u) == u.hasFile /\ u.ctype # APPLICATION_PDF /\ ~HasPdfExtension(u)
ValidPdfUpload(u) == u.hasFile /\ u.ctype = APPLICATION_PDF /\ HasPdfExtension(u)

\* ------------------------------------------------------------ claims

\* C1: once the handler has returned, whatever the outcome (an exception
\* that left the handler included), the Work Directory made for the request
\* and every file in it are gone.
C1_WorkDirRemoved == \A r \in Slots : Returned(r) => WorkDirGone(r)

\* a handler that made a Work Directory has left by an uncaught exception
C1_Witness ==
    \E r \in Slots : pc[r] = "returned" /\ tmpdir[r] # 0 /\ exc[r] = "OSError"

\* C2 (as claimed): an upload that neither declares application/pdf nor has
\* a .pdf extension gets a 4xx answer and no converter is started for it.
C2_NonPdfRejected ==
    \A r \in Slots :
        NonPdfUpload(upload[r]) =>
            /\ ~Has(log[r], "spawn")
            /\ Returned(r) => resp[r].status \in 400..499

\* C3 (as claimed): no handler waits for the converter beyond the timeout; a
\* converter that overruns is killed, the answer is 504 and the Work
\* Directory is removed.
C3_BoundedWait ==
    \A r \in Slots :
        /\ (pc[r] = "wait" /\ child[r].state = "running") => child[r].elapsed <= TIMEOUT
        /\ (Returned(r) /\ child[r].state = "killed") =>
              resp[r].status = 504 /\ WorkDirGone(r)

\* C4 (as claimed): after a non-zero exit the answer is 500 and the
\* converter output it carries is at most 1000 characters long.
C4_DetailTruncated ==
    \A r \in Slots :
        (Returned(r) /\ child[r].state = "exited" /\ child[r].code # 0) =>
            resp[r].status = 500 /\ resp[r].detail <= 1000

\* C5: a zero exit without output file is answered 500 with the "no output"
\* error, which is not the error of a non-zero exit; the existence check
\* happens only after a zero exit; no 200 answer without an output file.
C5_NoOutputIsAnError ==
    \A r \in Slots :
        /\ (Returned(r) /\ child[r].state = "exited" /\ child[r].code = 0
              /\ child[r].wrote = NoData) =>
              /\ resp[r].status = 500
              /\ resp[r].error = ErrNoOutput(variant)
              /\ resp[r].error # ErrFailed(variant)
        /\ pc[r] \in {"check", "send"} => child[r].state = "exited" /\ child[r].code = 0
        /\ resp[r].status = 200 =>
              /\ child[r].state = "exited" /\ child[r].code = 0 /\ child[r].wrote # NoData
              /\ pc[r] = "done" => resp[r].body # NoData

\* the handler has answered a converter that exited zero and wrote nothing
C5_Witness ==
    \E r \in Slots :
        /\ pc[r] = "returned" /\ resp[r].status = 500
        /\ child[r].state = "exited" /\ child[r].code = 0 /\ child[r].wrote = NoData

\* the request did not get through for a reason outside the handler: the
\* input could not be written, the converter could not be started, was
\* killed, failed or wrote nothing
ConverterDidNotSucceed(r) ==
    \/ exc[r] # "none"
    \/ child[r].state = "killed"
    \/ child[r].state = "exited" /\ (child[r].code # 0 \/ child[r].wrote = NoData)

\* C6 (as claimed): a valid PDF upload whose conversion does not fail is
\* answered 200 with exactly the bytes the converter wrote.
C6_RoundTrip ==
    \A r \in Slots :
        (pc[r] = "done" /\ ValidPdfUpload(upload[r]) /\ ~ConverterDidNotSucceed(r)) =>
            /\ resp[r].status = 200
            /\ child[r].wrote # NoData
            /\ resp[r].body = child[r].wrote

\* C7 (as claimed): the names of the files in a Work Directory are the same
\* whatever the upload's filename.
C7_FixedNames ==
    \A l \in links : \A n \in {A_PDF, TRAVERSAL_B_PDF} :
        l.name \in {in_path(variant, n), out_path(variant, n)}

\* C8 (as claimed): no failure leaves the handler as an exception; every
\* failure answer carries an error kind.
C8_AllCaught ==
    \A r \in Slots :
        Returned(r) =>
            /\ ~resp[r].uncaught
            /\ resp[r].status >= 400 => resp[r].error # ""

\* the Input File of r is in r's Work Directory with the bytes r uploaded
InputIntact(r) ==
    /\ Exists(tmpdir[r], in_path(variant, upload[r].filename))
    /\ inodes[InoOf(tmpdir[r], in_path(variant, upload[r].filename))] = upload[r].bytes

\* the Output Artifact of r is in r's Work Directory as r's converter wrote it
OutputIntact(r) ==
    /\ Exists(tmpdir[r], out_path(variant, upload[r].filename))
    /\ inodes[InoOf(tmpdir[r], out_path(variant, upload[r].filename))] = child[r].wrote

\* C9: two requests in flight never hold the same Work Directory, and while
\* a request is in progress its Input File and Output Artifact stay as that
\* request made them, whatever the other requests do.
C9_Isolation ==
    /\ \A r, q \in Slots : (r # q /\ Holding(r) /\ Holding(q)) => tmpdir[r] # tmpdir[q]
    /\ \A r \in Slots :
         /\ (Holding(r) /\ Has(log[r], "write")) => InputIntact(r)
         /\ (Holding(r) /\ child[r].state = "exited" /\ child[r].wrote # NoData)
               => OutputIntact(r)

\* one request is about to remove its Work Directory while another, whose
\* converter has written its output, is still in progress
C9_Witness ==
    \E r, q \in Slots :
        /\ r # q
        /\ pc[q] = "cleanup"
        /\ pc[r] \in {"wait", "check", "send"}
        /\ child[r].state = "exited" /\ child[r].wrote # NoData

\* at most one converter per request; none unless the Input File was
\* written; one after a write when nothing was raised
OneChild(r) ==
    /\ Count(log[r], "spawn") <= 1
    /\ ~Has(log[r], "write") => ~Has(log[r], "spawn")
    /\ (Returned(r) /\ Has(log[r], "write") /\ exc[r] = "none") => Count(log[r], "spawn") = 1

\* C10 (as claimed): write, then converter, then read of the output, then
\* removal of the Work Directory; one converter per request that passes
\* validation, none for one that fails it.
C10_StrictOrder ==
    \A r \in Slots :
        /\ Precedes(log[r], "write", "spawn")
        /\ Precedes(log[r], "exit", "read")
        /\ resp[r].status = 200 => Precedes(log[r], "read", "rmtree")
        /\ Count(log[r], "spawn") <= 1
        /\ Returned(r) => Count(log[r], "spawn") = (IF Has(log[r], "mkdtemp") THEN 1 ELSE 0)

\* C10 (amended): the Input File is written before the converter starts, the
\* converter has exited before the output is opened, the output is opened
\* before the Work Directory is removed and read from the open file after;
\* at most one converter per request, none unless the Input File was
\* written, exactly one after a write when nothing was raised.
C10_OpenBeforeCleanup ==
    \A r \in Slots :
        /\ Precedes(log[r], "write", "spawn")
        /\ Precedes(log[r], "spawn", "exit")
        /\ Precedes(log[r], "exit", "open")
        /\ Precedes(log[r], "open", "read")
        /\ Precedes(log[r], "rmtree", "read")
        /\ resp[r].status = 200 => Precedes(log[r], "open", "rmtree")
        /\ OneChild(r)

\* a request answered 200 has gone through all the steps
C10_Witness ==
    \E r \in Slots :
        /\ pc[r] = "done" /\ resp[r].status = 200
        /\ log[r] = <<"mkdtemp", "write", "spawn", "exit", "open", "rmtree", "read">>

====
